---- MODULE Spec2Model ----
(***************************************************************************)
(* A model of torch2trt/torch2trt.py: the trace-and-rewrite conversion     *)
(* engine.  Three specifications share the variables:                      *)
(*   LoadSpec  the registration of conversion rules (get_module_qualname,  *)
(*             tensorrt_converter) while the rules are being loaded;       *)
(*   NormSpec  the broadcast & constant normalizer (check_torch_dtype,     *)
(*             add_missing_trt_tensors, broadcast_trt_tensors, trt_), the  *)
(*             type and device mappings, add_inputs and mark_outputs,      *)
(*             applied to operands drawn from bounded sets;                *)
(*   Spec      the conversion driver torch2trt, the ConversionContext,     *)
(*             its hooks and the wrapper of attach_converter, run over     *)
(*             nondeterministic traced modules, and the state dictionary   *)
(*             of the TRTModule it returns.                                *)
(***************************************************************************)
EXTENDS Integers, Sequences, FiniteSets, TLC

VARIABLES
    tensors,    \* Live Tensors: id -> [shape, dtype, _trt]
    network,    \* the graph under construction: [id, nodes, outputs]
    last,       \* NormSpec: the last normalizer call and what it did
    ncalls,     \* NormSpec: number of normalizer calls made
    pc,         \* position of torch2trt
    table,      \* host operator table: operation -> live implementation
    ctx,        \* ConversionContext fields
    stack,      \* intercepted / host calls in progress, innermost last
    exc,        \* an exception is propagating
    made,       \* calls made in the current trace
    hooks,      \* installs and uninstalls of the current context
    ret,        \* what the last wrapper call returned (and what its method returned)
    result,     \* what torch2trt handed back to its caller
    registry,   \* LoadSpec: the CONVERTERS dictionary while the rules are being loaded
    load,       \* LoadSpec: position of the load and the last decoration made
    store       \* a saved state dictionary and the wrapper loaded from it

vars == <<tensors, network, last, ncalls, pc, table, ctx, stack, exc, made, hooks, ret, result,
          registry, load, store>>

normvars == <<tensors, network, last, ncalls>>
tracevars == <<pc, table, ctx, stack, exc, made, hooks, ret, result>>
loadvars == <<registry, load>>

(***************************************************************************)
(* Bounds                                                                  *)
(***************************************************************************)
MaxRank == 3        \* longest tensor shape drawn
MaxOperands == 2    \* longest operand list given to the normalizer
MaxCalls == 2       \* operation calls per trace (and so their nesting depth)

Dims == {1, 2}      \* a dimension is a singleton or it is not

RECURSIVE SeqsUpTo(_, _)
SeqsUpTo(S, n) ==
    IF n = 0 THEN {<<>>}
    ELSE LET shorter == SeqsUpTo(S, n - 1)
         IN  shorter \cup {Append(s, x) : s \in {q \in shorter : Len(q) = n - 1}, x \in S}

Shapes == SeqsUpTo(Dims, MaxRank)

Max(a, b) == IF a >= b THEN a ELSE b

(***************************************************************************)
(* Values.  An operand is a Python number (0) or a Live Tensor (its id,    *)
(* > 0).  A Graph Handle is an ITensor: the graph it belongs to, its node, *)
(* its shape.  NoHandle is a tensor without the _trt attribute.            *)
(***************************************************************************)
Scalar == 0
IsTensor(t) == t > 0                    \* isinstance(t, torch.Tensor)
IsScalar(t) == t = Scalar               \* isinstance(t, float) or isinstance(t, int)

NoHandle == [net |-> "none", node |-> 0, shape |-> <<>>]

\* which graph a handle belongs to: the one under construction, or the graph of
\* an earlier conversion
Current == "current"
Earlier == "earlier"
HasTrt(tens, t) == tens[t].trt # NoHandle    \* hasattr(t, "_trt")

\* from: the operation whose implementation returned the tensor ("" for an
\* input or a tensor the module holds)
Tensor(shape, dtype, trt) ==
    [shape |-> shape, dtype |-> dtype, device |-> "cuda", trt |-> trt, from |-> ""]

SetTrt(tens, t, h) == [tens EXCEPT ![t].trt = h]   \* t._trt = h

\* Drop the first k entries of a sequence: s[k:]
DropFirst(s, k) == SubSeq(s, k + 1, Len(s))

\* [1] * k
RECURSIVE Ones(_)
Ones(k) == IF k <= 0 THEN <<>> ELSE <<1>> \o Ones(k - 1)

(***************************************************************************)
(* The target engine's network (consumed interface): every add_* call      *)
(* appends a node and get_output(0) is a handle to it.  A node keeps the   *)
(* name, element type and location of its output tensor; a new tensor is   *)
(* unnamed, untyped here, and located on the device.                       *)
(***************************************************************************)
EmptyNetwork == [id |-> Current, nodes |-> <<>>, outputs |-> {}]

TensorLocations == {"trt.TensorLocation.DEVICE", "trt.TensorLocation.HOST"}

AddNode(net, kind, shape, src) ==
    [net EXCEPT !.nodes = Append(@, [kind |-> kind, shape |-> shape, src |-> src,
                                      name |-> "", dtype |-> "",
                                      location |-> "trt.TensorLocation.DEVICE"])]

\* network.add_input(name=, shape=, dtype=)
AddInput(net, name, shape, dtype, src) ==
    [net EXCEPT !.nodes = Append(@, [kind |-> "input", shape |-> shape, src |-> src,
                                      name |-> name, dtype |-> dtype,
                                      location |-> "trt.TensorLocation.DEVICE"])]

\* an attribute of the tensor behind handle h is assigned; a handle of another
\* graph is not a node of this one
SetAttr(net, h, field, value) ==
    IF h.net = net.id /\ h.node \in 1..Len(net.nodes)
    THEN [net EXCEPT !.nodes[h.node][field] = value]
    ELSE net

GetOutput(net) ==
    [net |-> net.id, node |-> Len(net.nodes), shape |-> net.nodes[Len(net.nodes)].shape]

\* the constant nodes made from tensor t
ConstNodesOf(net, t) ==
    {i \in 1..Len(net.nodes) : net.nodes[i].kind = "constant" /\ net.nodes[i].src = t}

(***************************************************************************)
(* check_torch_dtype                                                       *)
(***************************************************************************)
RECURSIVE CheckLoop(_, _, _, _)
CheckLoop(ops, tens, i, dtype) ==
    IF i > Len(ops) THEN dtype
    ELSE IF IsTensor(ops[i])
         THEN IF dtype = "None"
              THEN CheckLoop(ops, tens, i + 1, tens[ops[i]].dtype)
              ELSE IF dtype = tens[ops[i]].dtype
                   THEN CheckLoop(ops, tens, i + 1, dtype)
                   ELSE "AssertionError"
         ELSE CheckLoop(ops, tens, i + 1, dtype)

check_torch_dtype(ops, tens) ==
    LET dtype == CheckLoop(ops, tens, 1, "None")
    IN  IF dtype = "None" THEN "AssertionError" ELSE dtype

(***************************************************************************)
(* add_missing_trt_tensors.  A normalizer state is [err, net, tens, out].  *)
(***************************************************************************)
RECURSIVE NumPrecedingOnes(_, _)
NumPrecedingOnes(shape, j) ==
    IF j > Len(shape) THEN 0
    ELSE IF shape[j] = 1 THEN 1 + NumPrecedingOnes(shape, j + 1) ELSE 0

\* faulty variant: every singleton dimension is removed, not only the leading run
LeafShapeNoOnes(shape) == SelectSeq(shape, LAMBDA d : d # 1)

LeafShape(shape) == DropFirst(shape, NumPrecedingOnes(shape, 1))

\* faulty variant: the _trt attribute is never looked at, every tensor gets a new constant
AddMissingStepNoReuse(st, t) ==
    LET shape == IF IsScalar(t) THEN <<1>> ELSE LeafShape(st.tens[t].shape)
        n == AddNode(st.net, "constant", shape, t)
    IN  [st EXCEPT !.net = n,
                   !.tens = IF IsScalar(t) THEN @ ELSE SetTrt(@, t, GetOutput(n)),
                   !.out = Append(@, GetOutput(n))]

AddMissingStep(st, t) ==
    IF IsScalar(t)
    THEN LET n == AddNode(st.net, "constant", <<1>>, 0)
         IN  [st EXCEPT !.net = n, !.out = Append(@, GetOutput(n))]
    ELSE IF HasTrt(st.tens, t)
    THEN [st EXCEPT !.out = Append(@, st.tens[t].trt)]
    ELSE LET n == AddNode(st.net, "constant", LeafShape(st.tens[t].shape), t)
         IN  [st EXCEPT !.net = n, !.tens = SetTrt(@, t, GetOutput(n)),
                        !.out = Append(@, GetOutput(n))]

RECURSIVE AddMissingLoop(_, _, _)
AddMissingLoop(st, ops, i) ==
    IF i > Len(ops) THEN st
    ELSE AddMissingLoop(AddMissingStep(st, ops[i]), ops, i + 1)

\* faulty variant: the element types are checked after the constants were made
AddMissingCheckedLate(net, ops, tens) ==
    LET st == AddMissingLoop([err |-> "", net |-> net, tens |-> tens, out |-> <<>>], ops, 1)
    IN  IF check_torch_dtype(ops, tens) = "AssertionError"
        THEN [st EXCEPT !.err = "AssertionError", !.out = <<>>]
        ELSE st

add_missing_trt_tensors(net, ops, tens) ==
    IF check_torch_dtype(ops, tens) = "AssertionError"
    THEN [err |-> "AssertionError", net |-> net, tens |-> tens, out |-> <<>>]
    ELSE AddMissingLoop([err |-> "", net |-> net, tens |-> tens, out |-> <<>>], ops, 1)

(***************************************************************************)
(* broadcast_trt_tensors                                                   *)
(***************************************************************************)
\* faulty variant: the singleton dimensions are put behind the shape
BroadcastStepAppend(st, h, broadcast_ndim) ==
    IF Len(h.shape) < broadcast_ndim
    THEN LET n == AddNode(st.net, "shuffle",
                          h.shape \o Ones(broadcast_ndim - Len(h.shape)), 0)
         IN  [st EXCEPT !.net = n, !.out = Append(@, GetOutput(n))]
    ELSE [st EXCEPT !.out = Append(@, h)]

BroadcastStep(st, h, broadcast_ndim) ==
    IF Len(h.shape) < broadcast_ndim
    THEN LET n == AddNode(st.net, "shuffle",
                          Ones(broadcast_ndim - Len(h.shape)) \o h.shape, 0)
         IN  [st EXCEPT !.net = n, !.out = Append(@, GetOutput(n))]
    ELSE [st EXCEPT !.out = Append(@, h)]

RECURSIVE BroadcastLoop(_, _, _, _)
BroadcastLoop(st, hs, broadcast_ndim, i) ==
    IF i > Len(hs) THEN st
    ELSE BroadcastLoop(BroadcastStep(st, hs[i], broadcast_ndim), hs, broadcast_ndim, i + 1)

broadcast_trt_tensors(net, hs, broadcast_ndim, tens) ==
    BroadcastLoop([err |-> "", net |-> net, tens |-> tens, out |-> <<>>],
                  hs, broadcast_ndim, 1)

(***************************************************************************)
(* trt_                                                                    *)
(***************************************************************************)
RECURSIVE BroadcastNumDim(_, _, _, _)
BroadcastNumDim(ops, tens, i, acc) ==
    IF i > Len(ops) THEN acc
    ELSE IF IsTensor(ops[i])
         THEN LET num_dim == IF ~HasTrt(tens, ops[i])
                             THEN Len(tens[ops[i]].shape)
                             ELSE Len(tens[ops[i]].trt.shape)
              IN  BroadcastNumDim(ops, tens, i + 1, IF num_dim > acc THEN num_dim ELSE acc)
         ELSE BroadcastNumDim(ops, tens, i + 1, acc)

\* lines 227-242: the handle of one operand, created when missing
TrtGet(st, t, broadcast_num_dim) ==
    IF IsTensor(t) /\ HasTrt(st.tens, t)
    THEN [st EXCEPT !.out = Append(@, st.tens[t].trt)]
    ELSE IF IsTensor(t)
    THEN LET n == AddNode(st.net, "constant", st.tens[t].shape, t)
         IN  [st EXCEPT !.net = n, !.tens = SetTrt(@, t, GetOutput(n)),
                        !.out = Append(@, GetOutput(n))]
    ELSE LET n == AddNode(st.net, "constant", Ones(broadcast_num_dim), 0)
         IN  [st EXCEPT !.net = n, !.out = Append(@, GetOutput(n))]

\* lines 248-256: the handle made broadcastable
TrtStep(st, t, broadcast_num_dim) ==
    LET got == TrtGet(st, t, broadcast_num_dim)
        h == got.out[Len(got.out)]
    IN  IF Len(h.shape) < broadcast_num_dim
        THEN LET n == AddNode(got.net, "shuffle",
                              Ones(broadcast_num_dim - Len(h.shape)) \o h.shape, 0)
             IN  [got EXCEPT !.net = n, !.out = Append(st.out, GetOutput(n))]
        ELSE got

RECURSIVE TrtLoop(_, _, _, _)
TrtLoop(st, ops, broadcast_num_dim, i) ==
    IF i > Len(ops) THEN st
    ELSE TrtLoop(TrtStep(st, ops[i], broadcast_num_dim), ops, broadcast_num_dim, i + 1)

\* out keeps the list form; a one-element list is handed back bare (lines 258-261)
trt_(net, ops, tens) ==
    IF check_torch_dtype(ops, tens) = "AssertionError"
    THEN [err |-> "AssertionError", net |-> net, tens |-> tens, out |-> <<>>]
    ELSE TrtLoop([err |-> "", net |-> net, tens |-> tens, out |-> <<>>],
                 ops, BroadcastNumDim(ops, tens, 1, 0), 1)

(***************************************************************************)
(* The conversion registry.  CONVERTERS is filled at load time by          *)
(* tensorrt_converter and read-only afterwards: "add" is registered as a   *)
(* real operation, "compose" with is_real=False, "other" has no            *)
(* registration.  method_impl is the snapshot of the implementation taken  *)
(* at registration.                                                        *)
(***************************************************************************)
Registered == {"add", "compose"}
Ops == Registered \cup {"other"}

MethodImpl(op) == [kind |-> "method_impl", op |-> op]
WrapperOf(op) == [kind |-> "wrapper", op |-> op]

CONVERTERS ==
    [op \in Registered |->
        [is_real |-> (op = "add"),
         method_str |-> IF op = "add" THEN "torch.add" ELSE "torch.nn.functional.compose",
         method_impl |-> MethodImpl(op)]]

\* the host operator table outside of any trace
HostTable == [op \in Ops |-> MethodImpl(op)]

(***************************************************************************)
(* Values of the driver's variables before torch2trt is first called.      *)
(***************************************************************************)
NoReturn == [op |-> "", args |-> <<>>, kwargs |-> <<>>, given |-> <<>>,
             converted |-> FALSE, value |-> 0, produced |-> 0,
             free |-> FALSE, methods |-> 0, rules |-> 0]

NoResult == [raised |-> "", at |-> "", returned |-> FALSE, engine |-> "None",
             context |-> FALSE, outs |-> <<>>,
             input_names |-> [some |-> FALSE, v |-> <<>>],
             output_names |-> [some |-> FALSE, v |-> <<>>]]

\* nothing saved, nothing loaded
NoStore == [saved |-> FALSE, prefix |-> "", state_dict0 |-> <<>>, state_dict |-> <<>>,
            save_err |-> "", loaded |-> FALSE, load_prefix |-> "", load_err |-> "",
            module |-> [engine |-> "None", context |-> FALSE,
                        input_names |-> [some |-> FALSE, v |-> <<>>],
                        output_names |-> [some |-> FALSE, v |-> <<>>]]]

NoHooks == [installed |-> 0, uninstalled |-> 0]

TraceIdle ==
    /\ pc = "idle"
    /\ table = [op \in {"add", "compose", "other"} |-> [kind |-> "method_impl", op |-> op]]
    /\ ctx = [lock |-> FALSE, method_args |-> [some |-> FALSE, v |-> <<>>],
              method_kwargs |-> [some |-> FALSE, v |-> <<>>],
              method_return |-> [some |-> FALSE, v |-> 0],
              method_str |-> [some |-> FALSE, v |-> ""]]
    /\ stack = <<>>
    /\ exc = ""
    /\ made = 0
    /\ hooks = NoHooks
    /\ ret = NoReturn
    /\ result = NoResult
    /\ store = NoStore

(***************************************************************************)
(* Registration: get_module_qualname and tensorrt_converter.  A dotted     *)
(* name is the sequence of its segments.  The environment has the modules  *)
(* torch, torch.nn and torch.nn.functional; "missing" names an attribute   *)
(* torch does not have, "absent" an operation of a package that is not     *)
(* installed.  Only registrations by name (the str branch) are drawn.      *)
(***************************************************************************)
MaxRegistrations == 3   \* decorations per load of the rules

Named == Registered \cup {"missing", "absent"}

Path(method) ==
    CASE method = "add" -> <<"torch", "add">>
      [] method = "compose" -> <<"torch", "nn", "functional", "compose">>
      [] method = "other" -> <<"torch", "other">>
      [] method = "missing" -> <<"torch", "missing">>
      [] OTHER -> <<"absent", "op">>

\* importlib.import_module succeeds on these; on "" it raises ValueError
Importable == {<<"torch">>, <<"torch", "nn">>, <<"torch", "nn", "functional">>}

\* the objects eval('module.qual_name') finds
Attributes == {Path("add"), Path("compose"), Path("other")}

\* ".".join(s)
RECURSIVE Join(_)
Join(s) ==
    IF s = <<>> THEN ""
    ELSE IF Len(s) = 1 THEN s[1]
    ELSE s[1] \o "." \o Join(Tail(s))

RECURSIVE QualnameLoop(_, _)
QualnameLoop(s, i) ==
    IF i >= Len(s)
    THEN [err |-> "RuntimeError", modulename |-> <<>>, qualname |-> <<>>]
    ELSE LET idx == Len(s) - i - 1
             modulename == SubSeq(s, 1, idx)
             qualname == SubSeq(s, idx + 1, Len(s))
         IN  IF modulename \in Importable
             THEN [err |-> "", modulename |-> modulename, qualname |-> qualname]
             ELSE QualnameLoop(s, i + 1)

get_module_qualname(name) == QualnameLoop(name, 0)

\* lines 629-637 and 654-657: the decorator tensorrt_converter hands back, and
\* the entry register_converter would write
tensorrt_converter(method, is_real, enabled) ==
    LET q == get_module_qualname(Path(method))
    IN  IF q.err # ""
        THEN [err |-> q.err, decorator |-> "", entry |-> <<>>]
        ELSE LET found == (q.modulename \o q.qualname) \in Attributes
             IN  [err |-> "",
                  decorator |-> IF enabled /\ found THEN "register_converter"
                                                    ELSE "pass_converter",
                  entry |-> [is_real |-> is_real,
                             method_str |-> Join(q.modulename) \o "." \o Join(q.qualname),
                             method_impl |-> MethodImpl(method)]]

\* lines 639-649
register_converter(reg, method, entry, converter) ==
    [registry |-> [m \in DOMAIN reg \cup {method} |-> IF m = method THEN entry ELSE reg[m]],
     returned |-> converter]

\* lines 651-652
pass_converter(reg, converter) == [registry |-> reg, returned |-> converter]

\* @tensorrt_converter(method, is_real, enabled) above the definition of converter
Decorate(reg, method, is_real, enabled, converter) ==
    LET t == tensorrt_converter(method, is_real, enabled)
        d == IF t.decorator = "register_converter"
             THEN register_converter(reg, method, t.entry, converter)
             ELSE pass_converter(reg, converter)
    IN  IF t.err # ""
        THEN [err |-> t.err, registry |-> reg, returned |-> ""]
        ELSE [err |-> "", registry |-> d.registry, returned |-> d.returned]

NoDecoration == [method |-> "", is_real |-> FALSE, enabled |-> FALSE, converter |-> "",
                 registry0 |-> <<>>, err |-> "", returned |-> ""]

\* the state the traces start from: the rules were loaded
Loaded ==
    /\ registry = CONVERTERS
    /\ load = [pc |-> "loaded", n |-> 0, last |-> NoDecoration]

(***************************************************************************)
(* LoadSpec: the module that defines the rules is imported, one decorated  *)
(* definition after the other.  An exception out of a decoration ends the  *)
(* import.                                                                 *)
(***************************************************************************)
Rules == {"convert_a", "convert_b"}

LoadInit ==
    /\ registry = <<>>
    /\ load = [pc |-> "loading", n |-> 0, last |-> NoDecoration]
    /\ tensors = <<>>
    /\ network = EmptyNetwork
    /\ last = [fn |-> "", ops |-> <<>>, ndim |-> 0, hs |-> <<>>,
               names |-> [some |-> FALSE, v |-> <<>>],
               net0 |-> EmptyNetwork, tens0 |-> <<>>, out |-> <<>>, err |-> ""]
    /\ ncalls = 0
    /\ TraceIdle

Register ==
    \E method \in Named, is_real \in BOOLEAN, enabled \in BOOLEAN, converter \in Rules :
        /\ load.pc = "loading"
        /\ load.n < MaxRegistrations
        /\ LET d == Decorate(registry, method, is_real, enabled, converter)
           IN  /\ registry' = d.registry
               /\ load' = [pc |-> IF d.err = "" THEN "loading" ELSE "aborted",
                           n |-> load.n + 1,
                           last |-> [method |-> method, is_real |-> is_real,
                                     enabled |-> enabled, converter |-> converter,
                                     registry0 |-> registry, err |-> d.err,
                                     returned |-> d.returned]]
        /\ UNCHANGED <<normvars, tracevars, store>>

\* the import reaches the end of the module
LoadEnds ==
    /\ load.pc = "loading"
    /\ load' = [load EXCEPT !.pc = "loaded"]
    /\ UNCHANGED <<registry, normvars, tracevars, store>>

LoadNext == Register \/ LoadEnds

LoadSpec == LoadInit /\ [][LoadNext]_vars

(***************************************************************************)
(* Optional values: None or a value.                                       *)
(***************************************************************************)
Some(v) == [some |-> TRUE, v |-> v]
NoneSeq == [some |-> FALSE, v |-> <<>>]
NoneInt == [some |-> FALSE, v |-> 0]
NoneStr == [some |-> FALSE, v |-> ""]

(***************************************************************************)
(* ConversionHook and ConversionContext                                    *)
(***************************************************************************)
\* ConversionContext.__init__: method_str is not among the fields it sets
ContextInit ==
    [lock |-> FALSE, method_args |-> NoneSeq, method_kwargs |-> NoneSeq,
     method_return |-> NoneInt, method_str |-> NoneStr]

\* ConversionHook._set_method
SetMethod(tbl, op, method) == [tbl EXCEPT ![op] = method]

\* ConversionHook.__enter__ / __exit__ for the hook of one registration
HookEnter(tbl, op) == SetMethod(tbl, op, WrapperOf(op))
HookExit(tbl, op) == SetMethod(tbl, op, CONVERTERS[op].method_impl)

\* the hooks of a context, in registry order
HookList == <<"add", "compose">>

RECURSIVE EnterLoop(_, _)
EnterLoop(tbl, i) ==
    IF i > Len(HookList) THEN tbl ELSE EnterLoop(HookEnter(tbl, HookList[i]), i + 1)

RECURSIVE ExitLoop(_, _)
ExitLoop(tbl, i) ==
    IF i > Len(HookList) THEN tbl ELSE ExitLoop(HookExit(tbl, HookList[i]), i + 1)

\* ConversionContext.__enter__ / __exit__: the table and the install counts
ContextEnter(tbl, h) ==
    [table |-> EnterLoop(tbl, 1),
     hooks |-> [h EXCEPT !.installed = @ + Len(HookList)]]

ContextExit(tbl, h) ==
    [table |-> ExitLoop(tbl, 1),
     hooks |-> [h EXCEPT !.uninstalled = @ + Len(HookList)]]

(***************************************************************************)
(* The element type and device mappings (TensorRT 7.0 or later, where bool *)
(* is mapped).  torch_dtype_to_trt hands back the mapped type, or          *)
(* "TypeError" when it raises.  The others hand back [raised, value]: what *)
(* was raised, or the value returned.                                      *)
(***************************************************************************)
torch_dtype_to_trt(dtype) ==
    CASE dtype = "bool" -> "trt.bool"
      [] dtype = "int8" -> "trt.int8"
      [] dtype = "int32" -> "trt.int32"
      [] dtype = "float16" -> "trt.float16"
      [] dtype = "float32" -> "trt.float32"
      [] dtype = "int64" -> "trt.int32"
      [] OTHER -> "TypeError"

Returns(v) == [raised |-> "", value |-> v]
Raises(e) == [raised |-> e, value |-> ""]

torch_dtype_from_trt(dtype) ==
    CASE dtype = "trt.int8" -> Returns("int8")
      [] dtype = "trt.bool" -> Returns("bool")
      [] dtype = "trt.int32" -> Returns("int32")
      [] dtype = "trt.float16" -> Returns("float16")
      [] dtype = "trt.float32" -> Returns("float32")
      [] OTHER -> Raises("TypeError")

\* lines 58-64: the else branch returns the TypeError it builds
torch_device_to_trt(device) ==
    CASE device = "cuda" -> Returns("trt.TensorLocation.DEVICE")
      [] device = "cpu" -> Returns("trt.TensorLocation.HOST")
      [] OTHER -> Returns("TypeError")

\* lines 67-73: likewise
torch_device_from_trt(device) ==
    CASE device = "trt.TensorLocation.DEVICE" -> Returns("cuda")
      [] device = "trt.TensorLocation.HOST" -> Returns("cpu")
      [] OTHER -> Returns("TypeError")

\* default_input_names / default_output_names
RECURSIVE DefaultNames(_, _)
DefaultNames(stem, n) ==
    IF n = 0 THEN <<>> ELSE Append(DefaultNames(stem, n - 1), stem \o ToString(n - 1))

default_input_names(num_inputs) == DefaultNames("input_", num_inputs)
default_output_names(num_outputs) == DefaultNames("output_", num_outputs)

\* trt_tensor.location = value: the engine's setter takes a TensorLocation; given
\* anything else it either raises TypeError (strict) or stores what it got
SetLocation(st, h, value, strict) ==
    IF value \notin TensorLocations /\ strict
    THEN [st EXCEPT !.err = "TypeError"]
    ELSE [st EXCEPT !.net = SetAttr(@, h, "location", value)]

(***************************************************************************)
(* ConversionContext.add_inputs and mark_outputs, as normalizer-style      *)
(* states [err, net, tens, out]; a raise keeps the effects made before it. *)
(***************************************************************************)
\* faulty variant: the _trt attribute is not looked at
AddInputStepAlways(st, t, name, strict) ==
    IF st.err # "" THEN st
    ELSE IF torch_dtype_to_trt(st.tens[t].dtype) = "TypeError"
    THEN [st EXCEPT !.err = "TypeError"]
    ELSE LET n == AddInput(st.net, name, DropFirst(st.tens[t].shape, 1),
                           torch_dtype_to_trt(st.tens[t].dtype), t)
             located == SetLocation([st EXCEPT !.net = n], GetOutput(n),
                                    torch_device_to_trt(st.tens[t].device).value, strict)
         IN  IF located.err # "" THEN located
             ELSE [located EXCEPT !.tens = SetTrt(@, t, GetOutput(n))]

\* lines 405-412 for one tensor
AddInputStep(st, t, name, strict) ==
    IF st.err # "" \/ HasTrt(st.tens, t) THEN st
    ELSE IF torch_dtype_to_trt(st.tens[t].dtype) = "TypeError"
    THEN [st EXCEPT !.err = "TypeError"]
    ELSE LET n == AddInput(st.net, name, DropFirst(st.tens[t].shape, 1),
                           torch_dtype_to_trt(st.tens[t].dtype), t)
             located == SetLocation([st EXCEPT !.net = n], GetOutput(n),
                                    torch_device_to_trt(st.tens[t].device).value, strict)
         IN  IF located.err # "" THEN located
             ELSE [located EXCEPT !.tens = SetTrt(@, t, GetOutput(n))]

RECURSIVE AddInputsLoop(_, _, _, _, _)
AddInputsLoop(st, torch_inputs, names, strict, i) ==
    IF i > Len(torch_inputs) THEN st
    ELSE AddInputsLoop(AddInputStep(st, torch_inputs[i], names[i], strict),
                       torch_inputs, names, strict, i + 1)

\* names: None or a list at least as long as torch_inputs
add_inputs(net, torch_inputs, names, tens, strict) ==
    AddInputsLoop([err |-> "", net |-> net, tens |-> tens, out |-> <<>>], torch_inputs,
                  IF names.some THEN names.v ELSE default_input_names(Len(torch_inputs)),
                  strict, 1)

\* lines 420-423 for one tensor with handle h
MarkOutput(st, t, h, name, strict) ==
    LET named == [st EXCEPT !.net = SetAttr(@, h, "name", name)]
        located == SetLocation(named, h, torch_device_to_trt(st.tens[t].device).value, strict)
    IN  IF located.err # "" THEN located
        ELSE IF torch_dtype_to_trt(st.tens[t].dtype) = "TypeError"
        THEN [located EXCEPT !.err = "TypeError"]
        ELSE [located EXCEPT
                 !.net = [SetAttr(@, h, "dtype", torch_dtype_to_trt(st.tens[t].dtype))
                             EXCEPT !.outputs = @ \cup {[tensor |-> t, handle |-> h]}]]

\* faulty variant: a missing _trt is read as None and marked all the same
MarkOutputStepUnchecked(st, t, name, strict) ==
    IF st.err # "" THEN st
    ELSE MarkOutput(st, t, st.tens[t].trt, name, strict)

\* lines 419-423 for one tensor
MarkOutputStep(st, t, name, strict) ==
    IF st.err # "" THEN st
    ELSE IF ~HasTrt(st.tens, t)
    THEN [st EXCEPT !.err = "AttributeError"]
    ELSE MarkOutput(st, t, st.tens[t].trt, name, strict)

RECURSIVE MarkOutputsLoop(_, _, _, _, _)
MarkOutputsLoop(st, torch_outputs, names, strict, i) ==
    IF i > Len(torch_outputs) THEN st
    ELSE MarkOutputsLoop(MarkOutputStep(st, torch_outputs[i], names[i], strict),
                         torch_outputs, names, strict, i + 1)

mark_outputs(net, torch_outputs, names, tens, strict) ==
    MarkOutputsLoop([err |-> "", net |-> net, tens |-> tens, out |-> <<>>], torch_outputs,
                    IF names.some THEN names.v ELSE default_output_names(Len(torch_outputs)),
                    strict, 1)

(***************************************************************************)
(* NormSpec: the normalizer, add_inputs, mark_outputs and the type and     *)
(* device mappings on drawn operands.  Tensor 1 is a handle-less float32   *)
(* tensor of any shape; tensor 2 has no singleton dimension and is a       *)
(* float32 tensor, which may already be a graph input (add_inputs attached *)
(* a handle of its shape without the batch dimension), a float64 tensor,   *)
(* or a float32 tensor on a device the engine has no location for.  A      *)
(* behaviour makes one call on a drawn operand list; after a normalizer    *)
(* call it normalizes the same operands again or broadcasts the handles it *)
(* got; after add_missing_trt_tensors or add_inputs it may mark the same   *)
(* tensors as outputs.                                                     *)
(***************************************************************************)
NormIds == {1, 2}

OperandLists == SeqsUpTo({Scalar} \cup NormIds, MaxOperands)

NoCall == [fn |-> "", ops |-> <<>>, ndim |-> 0, hs |-> <<>>,
           names |-> [some |-> FALSE, v |-> <<>>],
           net0 |-> EmptyNetwork, tens0 |-> <<>>,
           out |-> <<>>, err |-> ""]

\* what tensor 2 may be
SecondKinds ==
    {[dtype |-> "float32", device |-> "cuda", input |-> FALSE],
     [dtype |-> "float32", device |-> "cuda", input |-> TRUE],
     [dtype |-> "float64", device |-> "cuda", input |-> FALSE],
     [dtype |-> "float32", device |-> "xla", input |-> FALSE]}

NormInit ==
    /\ \E s1 \in Shapes, s2 \in {s \in Shapes : \A i \in 1..Len(s) : s[i] # 1},
          k \in SecondKinds :
          LET net == IF k.input
                     THEN AddInput(EmptyNetwork, "input_0", DropFirst(s2, 1),
                                   torch_dtype_to_trt(k.dtype), 2)
                     ELSE EmptyNetwork
          IN  /\ network = net
              /\ tensors = <<Tensor(s1, "float32", NoHandle),
                             [Tensor(s2, k.dtype, IF k.input THEN GetOutput(net) ELSE NoHandle)
                                 EXCEPT !.device = k.device]>>
    /\ last = NoCall
    /\ ncalls = 0
    /\ TraceIdle
    /\ Loaded

CalledWith(fn, ops, ndim, hs, names, r) ==
    /\ last' = [fn |-> fn, ops |-> ops, ndim |-> ndim, hs |-> hs, names |-> names,
                net0 |-> network, tens0 |-> tensors, out |-> r.out, err |-> r.err]
    /\ network' = r.net
    /\ tensors' = r.tens
    /\ ncalls' = ncalls + 1
    /\ UNCHANGED <<tracevars, loadvars, store>>

Called(fn, ops, ndim, hs, r) == CalledWith(fn, ops, ndim, hs, NoneSeq, r)

NormFns == {"add_missing_trt_tensors", "trt_"}

NormAddMissing ==
    \E ops \in OperandLists :
        /\ \/ ncalls = 0
           \/ ncalls = 1 /\ last.fn \in NormFns /\ last.err = "" /\ ops = last.ops
        /\ Called("add_missing_trt_tensors", ops, 0, <<>>,
                  add_missing_trt_tensors(network, ops, tensors))

NormTrt ==
    \E ops \in OperandLists :
        /\ \/ ncalls = 0
           \/ ncalls = 1 /\ last.fn \in NormFns /\ last.err = "" /\ ops = last.ops
        /\ Called("trt_", ops, BroadcastNumDim(ops, tensors, 1, 0), <<>>,
                  trt_(network, ops, tensors))

NormBroadcast ==
    \E ndim \in 0..(MaxRank + 1) :
        /\ ncalls = 1
        /\ last.fn = "add_missing_trt_tensors"
        /\ last.err = ""
        /\ Called("broadcast_trt_tensors", last.ops, ndim, last.out,
                  broadcast_trt_tensors(network, last.out, ndim, tensors))

\* names given by the caller
CustomNames == [i \in 1..MaxOperands |-> "t" \o ToString(i)]

NormAddInputs ==
    \E torch_inputs \in SeqsUpTo(NormIds, MaxOperands),
       names \in {NoneSeq, Some(CustomNames)}, strict \in BOOLEAN :
        /\ ncalls = 0
        /\ CalledWith("add_inputs", torch_inputs, 0, <<>>, names,
                      add_inputs(network, torch_inputs, names, tensors, strict))

\* the tensors of the last call are marked as outputs
NormMarkOutputs ==
    \E names \in {NoneSeq, Some(CustomNames)}, strict \in BOOLEAN :
        /\ ncalls = 1
        /\ last.fn \in {"add_missing_trt_tensors", "add_inputs"}
        /\ CalledWith("mark_outputs", SelectSeq(last.ops, IsTensor), 0, <<>>, names,
                      mark_outputs(network, SelectSeq(last.ops, IsTensor), names, tensors,
                                   strict))

MapFns == {"torch_dtype_to_trt", "torch_dtype_from_trt",
           "torch_device_to_trt", "torch_device_from_trt"}

\* the values a mapping may be given
MapArgs(fn) ==
    CASE fn = "torch_dtype_to_trt" ->
             {"bool", "int8", "int32", "float16", "float32", "int64", "float64", "uint8"}
      [] fn = "torch_dtype_from_trt" ->
             {"trt.int8", "trt.bool", "trt.int32", "trt.float16", "trt.float32", "trt.uint8"}
      [] fn = "torch_device_to_trt" -> {"cuda", "cpu", "xla"}
      [] OTHER -> TensorLocations \cup {"None"}

ApplyMap(fn, x) ==
    CASE fn = "torch_dtype_to_trt" ->
             IF torch_dtype_to_trt(x) = "TypeError" THEN Raises("TypeError")
             ELSE Returns(torch_dtype_to_trt(x))
      [] fn = "torch_dtype_from_trt" -> torch_dtype_from_trt(x)
      [] fn = "torch_device_to_trt" -> torch_device_to_trt(x)
      [] OTHER -> torch_device_from_trt(x)

\* one of the four mappings is applied to a drawn value; ops holds the value
NormMap ==
    \E fn \in MapFns :
        \E x \in MapArgs(fn) :
            /\ ncalls = 0
            /\ last' = [NoCall EXCEPT !.fn = fn, !.ops = <<x>>,
                                      !.out = <<ApplyMap(fn, x).value>>,
                                      !.err = ApplyMap(fn, x).raised,
                                      !.net0 = network, !.tens0 = tensors]
            /\ ncalls' = ncalls + 1
            /\ UNCHANGED <<tensors, network, tracevars, loadvars, store>>

NormNext ==
    \/ NormAddMissing
    \/ NormTrt
    \/ NormBroadcast
    \/ NormAddInputs
    \/ NormMarkOutputs
    \/ NormMap

NormSpec == NormInit /\ [][NormNext]_vars

(***************************************************************************)
(* A conversion rule.  The rules live outside torch2trt.py; this is the    *)
(* shape the engine expects of one: read the Operation Record, normalize   *)
(* the operands, add the layer, attach its handle to the return value.     *)
(***************************************************************************)
RECURSIVE MaxRankOf(_, _)
MaxRankOf(hs, i) ==
    IF i > Len(hs) THEN 0 ELSE Max(Len(hs[i].shape), MaxRankOf(hs, i + 1))

ConversionRule(c, net, tens) ==
    IF ~c.method_args.some \/ ~c.method_return.some
    THEN [err |-> "TypeError", net |-> net, tens |-> tens, out |-> <<>>]
    ELSE LET a == add_missing_trt_tensors(net, c.method_args.v, tens)
         IN  IF a.err # "" THEN a
             ELSE LET b == broadcast_trt_tensors(a.net, a.out, MaxRankOf(a.out, 1), a.tens)
                      n == AddNode(b.net, "layer", b.out[1].shape, c.method_return.v)
                  IN  [err |-> "", net |-> n,
                       tens |-> SetTrt(b.tens, c.method_return.v, GetOutput(n)),
                       out |-> <<GetOutput(n)>>]

(***************************************************************************)
(* attach_converter: the wrapper, cut at the two calls it makes.           *)
(***************************************************************************)
\* faulty variant: no converter takes the lock
WrapperEnterNeverLocks(c, converter) == [ctx |-> c, skip |-> c.lock]

\* faulty variant: the lock is taken but never looked at
WrapperEnterNoSkip(c, converter) ==
    [ctx |-> IF converter.is_real THEN [c EXCEPT !.lock = TRUE] ELSE c,
     skip |-> FALSE]

\* lines 284-290: skip, and the lock taken by a real converter
WrapperEnter(c, converter) ==
    IF ~c.lock
    THEN [ctx |-> IF converter.is_real THEN [c EXCEPT !.lock = TRUE] ELSE c,
          skip |-> FALSE]
    ELSE [ctx |-> c, skip |-> TRUE]

\* line 293: what the original implementation is invoked with
CallMethod(args, kwargs) == [args |-> args, kwargs |-> kwargs]

\* lines 296-299
Populate(c, args, kwargs, outputs, method_str) ==
    [c EXCEPT !.method_args = Some(args), !.method_kwargs = Some(kwargs),
              !.method_return = Some(outputs), !.method_str = Some(method_str)]

\* lines 305-308
Clear(c) ==
    [c EXCEPT !.method_args = NoneSeq, !.method_kwargs = NoneSeq,
              !.method_return = NoneInt, !.lock = FALSE]

\* faulty variant: the wrapper returns what the context holds
WrapperResultFromContext(frame, c) == c.method_return.v

\* line 310
WrapperResult(frame, c) == frame.outputs

Top == stack[Len(stack)]
Pop == SubSeq(stack, 1, Len(stack) - 1)

Handles == Cardinality({t \in 1..Len(tensors) : HasTrt(tensors, t)})

\* a call that reached line 293: free is whether it found the lock free,
\* methods and rules count the invocations of the original implementation and
\* of the conversion rule it has made
Frame(op, args, kwargs, wrapped, skip, acquired) ==
    [op |-> op, args |-> args, kwargs |-> kwargs, wrapped |-> wrapped,
     skip |-> skip, acquired |-> acquired, phase |-> "method",
     given |-> CallMethod(args, kwargs), outputs |-> 0, produced |-> 0,
     nodes0 |-> Len(network.nodes), trts0 |-> Handles,
     free |-> ~ctx.lock, methods |-> 1, rules |-> 0]

Returned(frame, converted, c) ==
    [op |-> frame.op, args |-> frame.args, kwargs |-> frame.kwargs,
     given |-> frame.given, converted |-> converted,
     value |-> WrapperResult(frame, c), produced |-> frame.produced,
     free |-> frame.free, methods |-> frame.methods, rules |-> frame.rules]

\* faulty variant: the converter is never called
AfterMethodReturnOnly(skip) == "return"

\* line 295: what the wrapper does once the original implementation returned
AfterMethod(skip) == IF skip THEN "return" ELSE "rule"

\* Tensor 1 is the tensor the module holds, tensor 2 its input, the tensors
\* after them are those the calls of the trace returned.  The calls traced code
\* may make, n being the tensor made last: add with the tensor the module
\* holds, add with a number and a named argument, add of two numbers, and the
\* two one-operand operations.
CallChoices(n) ==
    {[op |-> "add", args |-> <<n, 1>>, kwargs |-> <<>>],
     [op |-> "add", args |-> <<n, Scalar>>, kwargs |-> <<"alpha">>],
     [op |-> "add", args |-> <<Scalar, Scalar>>, kwargs |-> <<>>],
     [op |-> "compose", args |-> <<n>>, kwargs |-> <<>>],
     [op |-> "other", args |-> <<n>>, kwargs |-> <<>>]}

CanCall ==
    /\ pc = "trace"
    /\ exc = ""
    /\ made < MaxCalls

\* the traced module, an original implementation or a rule calls a patched operation
WrapperCall ==
    \E c \in CallChoices(Len(tensors)) :
        /\ CanCall
        /\ table[c.op].kind = "wrapper"
        /\ LET e == WrapperEnter(ctx, CONVERTERS[c.op])
           IN  /\ ctx' = e.ctx
               /\ stack' = Append(stack, Frame(c.op, c.args, c.kwargs, TRUE, e.skip,
                                               e.ctx.lock /\ ~ctx.lock))
        /\ made' = made + 1
        /\ UNCHANGED <<tensors, network, last, ncalls, pc, table, exc,
                       hooks, ret, result, loadvars, store>>

\* ... or an operation whose table entry is its own implementation
HostCall ==
    \E c \in CallChoices(Len(tensors)) :
        /\ CanCall
        /\ table[c.op].kind = "method_impl"
        /\ stack' = Append(stack, Frame(c.op, c.args, c.kwargs, FALSE, TRUE, FALSE))
        /\ made' = made + 1
        /\ UNCHANGED <<tensors, network, last, ncalls, pc, table, ctx, exc,
                       hooks, ret, result, loadvars, store>>

\* the tensor an implementation returns: a new object without _trt
Produce(op, args) ==
    LET like == IF \E i \in 1..Len(args) : IsTensor(args[i])
                THEN tensors[args[CHOOSE j \in 1..Len(args) :
                         IsTensor(args[j]) /\ \A k \in 1..(j - 1) : ~IsTensor(args[k])]]
                ELSE tensors[2]
    IN  [Tensor(like.shape, like.dtype, NoHandle) EXCEPT !.from = op, !.device = like.device]

Running ==
    /\ pc = "trace"
    /\ exc = ""
    /\ stack # <<>>

\* line 293 returns, not skipped: lines 295-299, then the rule is entered
MethodReturnsConverted ==
    /\ Running
    /\ Top.phase = "method"
    /\ Top.wrapped
    /\ AfterMethod(Top.skip) = "rule"
    /\ LET r == Len(tensors) + 1
       IN  /\ tensors' = Append(tensors, Produce(Top.op, Top.given.args))
           /\ ctx' = Populate(ctx, Top.args, Top.kwargs, r,
                              CONVERTERS[Top.op].method_str)
           /\ stack' = [stack EXCEPT ![Len(stack)].phase = "rule",
                                     ![Len(stack)].outputs = r,
                                     ![Len(stack)].produced = r,
                                     ![Len(stack)].rules = @ + 1]
    /\ UNCHANGED <<network, last, ncalls, pc, table, exc, made, hooks,
                   ret, result, loadvars, store>>

\* line 293 returns, skipped: line 310
MethodReturnsSuppressed ==
    /\ Running
    /\ Top.phase = "method"
    /\ Top.wrapped
    /\ AfterMethod(Top.skip) = "return"
    /\ LET r == Len(tensors) + 1
       IN  /\ tensors' = Append(tensors, Produce(Top.op, Top.given.args))
           /\ ret' = Returned([Top EXCEPT !.outputs = r, !.produced = r], FALSE, ctx)
    /\ stack' = Pop
    /\ UNCHANGED <<network, last, ncalls, pc, table, ctx, exc, made, hooks, result, loadvars, store>>

\* an unpatched implementation returns
HostReturn ==
    /\ Running
    /\ Top.phase = "method"
    /\ ~Top.wrapped
    /\ tensors' = Append(tensors, Produce(Top.op, Top.given.args))
    /\ stack' = Pop
    /\ UNCHANGED <<network, last, ncalls, pc, table, ctx, exc, made, hooks, ret, result, loadvars, store>>

\* line 302 returns: lines 305-310
RuleReturns ==
    /\ Running
    /\ Top.phase = "rule"
    /\ LET r == ConversionRule(ctx, network, tensors)
       IN  /\ r.err = ""
           /\ network' = r.net
           /\ tensors' = r.tens
           /\ ctx' = Clear(ctx)
           /\ ret' = Returned(Top, TRUE, Clear(ctx))
    /\ stack' = Pop
    /\ UNCHANGED <<last, ncalls, pc, table, exc, made, hooks, result, loadvars, store>>

\* line 302 raises: the wrapper is left without lines 305-308
RuleRaises ==
    /\ Running
    /\ Top.phase = "rule"
    /\ LET r == ConversionRule(ctx, network, tensors)
       IN  /\ r.err # ""
           /\ network' = r.net
           /\ tensors' = r.tens
           /\ exc' = r.err
    /\ stack' = Pop
    /\ UNCHANGED <<last, ncalls, pc, table, ctx, made, hooks, ret, result, loadvars, store>>

\* line 293 raises: the wrapper (or the unpatched call) is left at once
MethodRaises ==
    /\ Running
    /\ Top.phase = "method"
    /\ exc' = "RuntimeError"
    /\ stack' = Pop
    /\ UNCHANGED <<tensors, network, last, ncalls, pc, table, ctx, made, hooks, ret, result, loadvars, store>>

\* an exception of a nested call leaves the call that made it
Propagate ==
    /\ pc = "trace"
    /\ exc # ""
    /\ stack # <<>>
    /\ stack' = Pop
    /\ UNCHANGED <<tensors, network, last, ncalls, pc, table, ctx, exc, made,
                   hooks, ret, result, loadvars, store>>

\* host code (the traced module, an original implementation) catches it
Catch ==
    /\ pc = "trace"
    /\ exc # ""
    /\ IF stack = <<>> THEN TRUE ELSE Top.phase = "method"
    /\ exc' = ""
    /\ UNCHANGED <<tensors, network, last, ncalls, pc, table, ctx, stack, made,
                   hooks, ret, result, loadvars, store>>

(***************************************************************************)
(* TRTModule.__init__ and torch2trt                                        *)
(***************************************************************************)
\* TRTModule.__init__: the attributes of the new wrapper
TRTModuleInit(engine, input_names, output_names) ==
    [engine |-> engine, context |-> (engine # "None"),
     input_names |-> input_names, output_names |-> output_names]

\* lines 602-607: the wrapper torch2trt returns
TRTModule(engine, input_names, output_names, r) ==
    LET m == TRTModuleInit(engine, input_names, output_names)
    IN  [r EXCEPT !.returned = TRUE, !.engine = m.engine, !.context = m.context,
                  !.input_names = m.input_names, !.output_names = m.output_names]

(***************************************************************************)
(* TRTModule._on_state_dict and _load_from_state_dict.  A state dictionary *)
(* is a function from keys to values.  The engine's serialize turns an     *)
(* engine into its plan bytes, the runtime's deserialize_cuda_engine turns *)
(* plan bytes into an engine, or into None when it rejects them.           *)
(***************************************************************************)
Serialize(engine) == [plan |-> engine]
Deserialize(engine_bytes, accepted) == IF accepted THEN engine_bytes.plan ELSE "None"

\* state_dict[key] = value
Put(state_dict, key, value) ==
    [k \in DOMAIN state_dict \cup {key} |-> IF k = key THEN value ELSE state_dict[k]]

ReservedKeys(prefix) ==
    {prefix \o "engine", prefix \o "input_names", prefix \o "output_names"}

\* faulty variant: the keys are written without the prefix
OnStateDictNoPrefix(m, state_dict, prefix) ==
    IF m.engine = "None"
    THEN [err |-> "AttributeError", state_dict |-> state_dict]
    ELSE [err |-> "",
          state_dict |-> Put(Put(Put(state_dict, "engine", Serialize(m.engine)),
                                 "input_names", m.input_names),
                             "output_names", m.output_names)]

\* lines 436-439; serialize on an engine that is None raises AttributeError
OnStateDict(m, state_dict, prefix) ==
    IF m.engine = "None"
    THEN [err |-> "AttributeError", state_dict |-> state_dict]
    ELSE [err |-> "",
          state_dict |-> Put(Put(Put(state_dict, prefix \o "engine", Serialize(m.engine)),
                                 prefix \o "input_names", m.input_names),
                             prefix \o "output_names", m.output_names)]

\* lines 441-458, on the wrapper m
LoadFromStateDict(m, state_dict, prefix, accepted) ==
    IF prefix \o "engine" \notin DOMAIN state_dict
    THEN [err |-> "KeyError", module |-> m]
    ELSE LET engine == Deserialize(state_dict[prefix \o "engine"], accepted)
         IN  IF engine = "None"
             THEN [err |-> "AttributeError", module |-> [m EXCEPT !.engine = engine]]
             ELSE IF {prefix \o "input_names", prefix \o "output_names"}
                         \subseteq DOMAIN state_dict
             THEN [err |-> "",
                   module |-> [engine |-> engine, context |-> TRUE,
                               input_names |-> state_dict[prefix \o "input_names"],
                               output_names |-> state_dict[prefix \o "output_names"]]]
             ELSE [err |-> "KeyError",
                   module |-> [m EXCEPT !.engine = engine, !.context = TRUE]]

\* faulty variant: the hooks are removed after the body, not by a with statement
WithExitOnSuccessOnly(tbl, h, raised) ==
    IF raised = "" THEN ContextExit(tbl, h) ELSE [table |-> tbl, hooks |-> h]

\* the with statement of line 550 leaves its body, normally (raised = "") or
\* by an exception: __exit__ runs either way
WithExit(tbl, h, raised) == ContextExit(tbl, h)

Leave(raised, at, outs) ==
    LET x == WithExit(table, hooks, raised)
    IN  /\ table' = x.table
        /\ hooks' = x.hooks
        /\ result' = [NoResult EXCEPT !.raised = raised, !.at = at, !.outs = outs]
        /\ pc' = IF raised = "" THEN "build" ELSE "failed"

\* a handle seen from a later conversion
Retired(h) == IF h = NoHandle THEN h ELSE [h EXCEPT !.net = Earlier]

\* lines 533-536: the names torch2trt works out when the caller gives none (the
\* untraced run of line 529 returns as many outputs as the traced one)
InputNames == Some(default_input_names(1))
OutputNames(outs) == Some(default_output_names(Len(outs)))

\* the inputs a caller may pass: a supported tensor, one of an element type the
\* engine lacks, one on a device the engine lacks
InputKinds ==
    {[dtype |-> "float32", device |-> "cuda"],
     [dtype |-> "float64", device |-> "cuda"],
     [dtype |-> "float32", device |-> "xla"]}

\* lines 515-550: fresh clones of the inputs, a new network and context,
\* __enter__.  The tensor the module holds is the same object as before.
Torch2trtBegin ==
    \E k \in InputKinds :
        /\ pc \in {"idle", "done", "failed"}
        /\ store = NoStore
        /\ tensors' = <<[tensors[1] EXCEPT !.trt = Retired(@)],
                        [Tensor(<<1, 2, 2>>, k.dtype, NoHandle) EXCEPT !.device = k.device]>>
        /\ network' = EmptyNetwork
        /\ ctx' = ContextInit
        /\ LET e == ContextEnter(table, NoHooks)
           IN  /\ table' = e.table
               /\ hooks' = e.hooks
        /\ stack' = <<>>
        /\ exc' = ""
        /\ made' = 0
        /\ ret' = NoReturn
        /\ result' = NoResult
        /\ pc' = "add_inputs"
        /\ UNCHANGED <<last, ncalls, loadvars, store>>

\* line 552
AddInputs ==
    \E strict \in BOOLEAN :
        /\ pc = "add_inputs"
        /\ LET r == add_inputs(network, <<2>>, InputNames, tensors, strict)
           IN  /\ network' = r.net
               /\ tensors' = r.tens
               /\ IF r.err = ""
                  THEN /\ pc' = "trace"
                       /\ UNCHANGED <<table, hooks, result>>
                  ELSE Leave(r.err, "add_inputs", <<>>)
        /\ UNCHANGED <<last, ncalls, ctx, stack, exc, made, ret, loadvars, store>>

\* what the module returns: the tensor made last, alone or after its input
OutChoices(n) == {<<n>>, <<2, n>>}

\* lines 554-558: the traced module returns its outputs, mark_outputs
ModuleReturns ==
    \E outs \in OutChoices(Len(tensors)), strict \in BOOLEAN :
        /\ pc = "trace"
        /\ exc = ""
        /\ stack = <<>>
        /\ LET r == mark_outputs(network, outs, OutputNames(outs), tensors, strict)
           IN  /\ network' = r.net
               /\ tensors' = r.tens
               /\ Leave(r.err, IF r.err = "" THEN "" ELSE "mark_outputs", outs)
        /\ UNCHANGED <<last, ncalls, ctx, stack, exc, made, ret, loadvars, store>>

\* line 554 raises
ModuleRaises ==
    /\ pc = "trace"
    /\ exc # ""
    /\ stack = <<>>
    /\ Leave(exc, "module", <<>>)
    /\ exc' = ""
    /\ UNCHANGED <<tensors, network, last, ncalls, ctx, stack, made, ret, loadvars, store>>

\* lines 559-607: the builder hands back an engine or None
Build ==
    \E engine \in {"engine", "None"} :
        /\ pc = "build"
        /\ result' = TRTModule(engine, InputNames, OutputNames(result.outs), result)
        /\ pc' = "done"
        /\ UNCHANGED <<tensors, network, last, ncalls, table, ctx, stack, exc,
                       made, hooks, ret, loadvars, store>>

\* what the dictionary handed to the hook may already hold
Prefixes == {"", "trt."}
StateDicts == {<<>>, [k \in {"fc.weight"} |-> "tensor"]}

\* the caller saves the wrapper it got: module_trt.state_dict(prefix=prefix)
StateDict ==
    \E prefix \in Prefixes, state_dict \in StateDicts :
        /\ pc = "done"
        /\ result.returned
        /\ ~store.saved
        /\ LET r == OnStateDict(result, state_dict, prefix)
           IN  store' = [store EXCEPT !.saved = TRUE, !.prefix = prefix,
                                      !.state_dict0 = state_dict,
                                      !.state_dict = r.state_dict, !.save_err = r.err]
        /\ UNCHANGED <<normvars, tracevars, loadvars>>

\* ... and loads what was saved into a fresh TRTModule()
LoadStateDict ==
    \E prefix \in Prefixes, accepted \in BOOLEAN :
        /\ store.saved
        /\ store.save_err = ""
        /\ ~store.loaded
        /\ LET r == LoadFromStateDict(TRTModuleInit("None", NoneSeq, NoneSeq),
                                      store.state_dict, prefix, accepted)
           IN  store' = [store EXCEPT !.loaded = TRUE, !.load_prefix = prefix,
                                      !.load_err = r.err, !.module = r.module]
        /\ UNCHANGED <<normvars, tracevars, loadvars>>

Init ==
    /\ \E d \in {"float32", "int32"} :
           tensors = <<Tensor(<<2>>, d, NoHandle), Tensor(<<1, 2, 2>>, "float32", NoHandle)>>
    /\ network = EmptyNetwork
    /\ last = NoCall
    /\ ncalls = 0
    /\ TraceIdle
    /\ Loaded

Next ==
    \/ Torch2trtBegin
    \/ AddInputs
    \/ WrapperCall
    \/ HostCall
    \/ MethodReturnsConverted
    \/ MethodReturnsSuppressed
    \/ HostReturn
    \/ RuleReturns
    \/ RuleRaises
    \/ MethodRaises
    \/ Propagate
    \/ Catch
    \/ ModuleReturns
    \/ ModuleRaises
    \/ Build
    \/ StateDict
    \/ LoadStateDict

Spec == Init /\ [][Next]_vars

(***************************************************************************)
(* Claims about the wrapper, the context and the driver, checked under     *)
(* Spec                                                                    *)
(***************************************************************************)
\* C1: whatever a wrapper call returns, converted or suppressed, is the very
\* tensor the original implementation captured at registration returned, and
\* that implementation was invoked with the call's own positional and named
\* arguments.
C1_WrapperReturnsMethodValue ==
    ret.op # "" =>
        /\ ret.value = ret.produced
        /\ ret.value \in 1..Len(tensors)
        /\ tensors[ret.value].from = ret.op
        /\ ret.given = [args |-> ret.args, kwargs |-> ret.kwargs]

\* C1 witness: a converted call with a named argument has returned
C1_Witness ==
    /\ ret.op = "add"
    /\ ret.converted
    /\ ret.kwargs = <<"alpha">>
    /\ HasTrt(tensors, ret.value)

Holders == {i \in 1..Len(stack) : stack[i].acquired}

\* C2: the lock is held for at most one real operation at a time (a real
\* operation that enters with the lock free takes it, and nobody else does),
\* and every intercepted call made, at any depth, by the original
\* implementation of the operation holding the lock is suppressed: no rule runs
\* for it, so the graph gains no node and no tensor gains a handle while that
\* implementation runs.
C2_CompositeSuppression ==
    /\ Cardinality(Holders) <= 1
    /\ \A i \in 1..Len(stack) :
           (stack[i].wrapped /\ ~stack[i].skip /\ CONVERTERS[stack[i].op].is_real)
               <=> stack[i].acquired
    /\ \A i \in Holders :
           /\ ctx.lock
           /\ stack[i].phase = "method" =>
                  /\ \A j \in (i + 1)..Len(stack) :
                         stack[j].wrapped => stack[j].skip /\ stack[j].phase = "method"
                  /\ Len(network.nodes) = stack[i].nodes0
                  /\ Handles = stack[i].trts0

\* C2 witness: an intercepted call made by the implementation of the real
\* operation that holds the lock
C2_Witness ==
    /\ Len(stack) = 2
    /\ stack[1].acquired
    /\ stack[1].phase = "method"
    /\ stack[2].wrapped
    /\ stack[2].skip

\* C3: once the scoped trace has ended, on every exit path, every registered
\* operation's live implementation is the snapshot taken at registration, no
\* wrapper is left in the table, and there were as many uninstalls as installs.
C3_HooksRemovedOnEveryExit ==
    pc \in {"build", "done", "failed"} =>
        /\ \A op \in Registered : table[op] = CONVERTERS[op].method_impl
        /\ \A op \in Ops : table[op].kind # "wrapper"
        /\ hooks.installed = Cardinality(Registered)
        /\ hooks.uninstalled = hooks.installed

\* C3 witness: the trace ended because a conversion rule raised
C3_Witness ==
    /\ pc = "failed"
    /\ result.at = "module"
    /\ result.raised = "AssertionError"
    /\ hooks.uninstalled = 2

Range(f) == {f[i] : i \in 1..Len(f)}

\* the result of an unregistered operation was returned by the module or
\* turned into a graph constant for a rule
UnsupportedUsed ==
    \E t \in 1..Len(tensors) :
        /\ tensors[t].from \in Ops \ Registered
        /\ t \in Range(result.outs) \/ ConstNodesOf(network, t) # {}

\* C4: a conversion whose traced module uses the result of an unregistered
\* operation (returns it, or passes it to a registered operation) raises and
\* hands back no Compiled Module Wrapper, and a failed conversion leaves the
\* host operator table as it was before the call.
C4_UnsupportedOperationAborts ==
    /\ pc \in {"build", "done"} => ~UnsupportedUsed
    /\ pc = "failed" => table = HostTable

RecordAbsent(c) ==
    /\ ~c.method_args.some
    /\ ~c.method_kwargs.some
    /\ ~c.method_return.some
    /\ ~c.method_str.some

RuleReturned ==
    /\ stack # <<>>
    /\ Top.phase = "rule"
    /\ stack' = Pop
    /\ exc' = ""

Populated ==
    /\ stack # <<>>
    /\ Top.phase = "method"
    /\ Len(stack') = Len(stack)
    /\ stack'[Len(stack)].phase = "rule"

\* C5: right after the rule of a converted call returns the Operation Record is
\* absent (arguments, named arguments, return value and descriptor), and it
\* stays absent until a converted call populates it.
C5_RecordAbsentAfterRule ==
    [][/\ RuleReturned => RecordAbsent(ctx')
       /\ (RecordAbsent(ctx) /\ ~Populated) => RecordAbsent(ctx')]_vars

InGraph(t) == \E i \in 1..Len(network.nodes) : network.nodes[i].src = t

\* C6: during a trace a Live Tensor carries a handle exactly when it was added
\* as an input to, materialized as a constant in, or produced by a rule in the
\* graph under construction, and the handle is a node of that graph.
C6_HandleIffInCurrentGraph ==
    pc \in {"add_inputs", "trace"} =>
        \A t \in 1..Len(tensors) :
            /\ HasTrt(tensors, t) <=> InGraph(t)
            /\ HasTrt(tensors, t) =>
                   /\ tensors[t].trt.net = network.id
                   /\ tensors[t].trt.node \in 1..Len(network.nodes)
                   /\ network.nodes[tensors[t].trt.node].src = t

\* C7: every graph output was marked for a tensor that carries the marked
\* handle, and when a tensor of the list given to mark_outputs has no handle
\* the call fails and no output exists for that tensor.
C7_OnlyHandledTensorsMarked ==
    /\ \A o \in network.outputs :
           /\ HasTrt(tensors, o.tensor)
           /\ o.handle = tensors[o.tensor].trt
    /\ \A t \in Range(result.outs) :
           ~HasTrt(tensors, t) =>
               /\ pc = "failed"
               /\ result.at = "mark_outputs"
               /\ result.raised # ""
               /\ ~result.returned
               /\ \A o \in network.outputs : o.tensor # t

\* C7 witness: mark_outputs marked the first tensor and failed on the second
C7_Witness ==
    /\ pc = "failed"
    /\ result.at = "mark_outputs"
    /\ result.raised = "AttributeError"
    /\ Len(result.outs) = 2
    /\ ~HasTrt(tensors, result.outs[2])
    /\ \E o \in network.outputs : o.tensor = result.outs[1]

(***************************************************************************)
(* Claims about the normalizer, checked under NormSpec                     *)
(***************************************************************************)
NodesAdded == Len(network.nodes) - Len(last.net0.nodes)

Positions(ops, t) == {i \in 1..Len(ops) : ops[i] = t}

\* the call found tensor t carrying the handle of a constant made from t
Materialized(t) ==
    /\ HasTrt(last.tens0, t)
    /\ last.tens0[t].trt.node \in ConstNodesOf(last.net0, t)

\* the call found tensor t without a handle and was given it twice
TwiceInOneCall(t) ==
    /\ ~HasTrt(last.tens0, t)
    /\ Cardinality(Positions(last.ops, t)) >= 2

IsShuffleOf(h, g) ==
    /\ h.net = network.id
    /\ h.node \in 1..Len(network.nodes)
    /\ network.nodes[h.node].kind = "shuffle"
    /\ Len(h.shape) > Len(g.shape)
    /\ h.shape = Ones(Len(h.shape) - Len(g.shape)) \o g.shape

\* C8 as stated: the second materialization of a tensor (in a second normalizer
\* call, or at a second position of one call) returns the handle the first one
\* attached and adds no node: a call that finds every tensor operand already
\* materialized adds only the constants of its scalars, and every position of
\* the tensor receives the attached handle.
C8_SecondReturnsAttachedHandle ==
    (last.fn \in NormFns /\ last.err = "") =>
        \A t \in NormIds :
            /\ (Materialized(t) \/ TwiceInOneCall(t)) =>
                   \A i \in Positions(last.ops, t) : last.out[i] = tensors[t].trt
            /\ Cardinality(ConstNodesOf(network, t)) <= 1
            /\ (\A i \in 1..Len(last.ops) :
                    IsTensor(last.ops[i]) => HasTrt(last.tens0, last.ops[i])) =>
                   NodesAdded = Cardinality(Positions(last.ops, Scalar))

\* C8 amended: materializing the same handle-less tensor twice adds exactly one
\* constant node; the second materialization adds no constant and works from the
\* handle the first attached: add_missing_trt_tensors returns that handle and
\* adds no node, trt_ returns that handle or, when its rank is below the call's
\* broadcast rank, the handle of a reshape node it adds for it.
C8_OneConstantPerTensor ==
    (last.fn \in NormFns /\ last.err = "") =>
        \A t \in NormIds :
            /\ Cardinality(ConstNodesOf(network, t)) <= 1
            /\ (Materialized(t) \/ TwiceInOneCall(t)) =>
                   /\ Positions(last.ops, t) # {} =>
                          Cardinality(ConstNodesOf(network, t)) = 1
                   /\ Materialized(t) => tensors[t].trt = last.tens0[t].trt
                   /\ \A i \in Positions(last.ops, t) :
                          \/ last.out[i] = tensors[t].trt
                          \/ /\ last.fn = "trt_"
                             /\ Len(tensors[t].trt.shape) < last.ndim
                             /\ IsShuffleOf(last.out[i], tensors[t].trt)
            /\ (last.fn = "add_missing_trt_tensors" /\
                \A i \in 1..Len(last.ops) :
                    IsTensor(last.ops[i]) => HasTrt(last.tens0, last.ops[i])) =>
                   NodesAdded = Cardinality(Positions(last.ops, Scalar))

\* C8 witness: a second normalizer call on a tensor the first call materialized
C8_Witness ==
    /\ ncalls = 2
    /\ last.fn \in NormFns
    /\ last.err = ""
    /\ 1 \in {last.ops[i] : i \in 1..Len(last.ops)}
    /\ Materialized(1)
    /\ Cardinality(ConstNodesOf(network, 1)) = 1

RankOf(tens, t) ==
    IF HasTrt(tens, t) THEN Len(tens[t].trt.shape) ELSE Len(tens[t].shape)

\* the broadcast rank of a trt_ call: the largest rank among its tensor operands
BroadcastRank(ops, tens) ==
    LET ranks == {RankOf(tens, ops[i]) : i \in {j \in 1..Len(ops) : IsTensor(ops[j])}}
    IN  IF ranks = {} THEN 0 ELSE CHOOSE r \in ranks : \A q \in ranks : q <= r

PaddedFrom(h, g) == h.shape = Ones(Len(h.shape) - Len(g.shape)) \o g.shape

\* C9 as stated: every handle broadcast_trt_tensors returns has rank exactly the
\* declared target rank R, a handle of lower rank is left-padded with singleton
\* dimensions, and every handle trt_ returns has the call's broadcast rank.
C9_EveryRankIsTarget ==
    /\ last.fn = "broadcast_trt_tensors" =>
           /\ Len(last.out) = Len(last.hs)
           /\ \A i \in 1..Len(last.out) :
                  /\ Len(last.out[i].shape) = last.ndim
                  /\ Len(last.hs[i].shape) < last.ndim => PaddedFrom(last.out[i], last.hs[i])
    /\ (last.fn = "trt_" /\ last.err = "") =>
           \A i \in 1..Len(last.out) :
               Len(last.out[i].shape) = BroadcastRank(last.ops, last.tens0)

\* C9 amended: every handle broadcast_trt_tensors returns has rank max(R, its
\* own rank), so exactly R when R is at least the rank of every handle given; a
\* handle of rank below R is the input left-padded with R minus rank singleton
\* dimensions, a handle of rank R or more is returned unchanged; every handle
\* trt_ returns has the call's broadcast rank.
C9_RankIsMaxOfTargetAndOwn ==
    /\ last.fn = "broadcast_trt_tensors" =>
           /\ Len(last.out) = Len(last.hs)
           /\ \A i \in 1..Len(last.out) :
                  /\ Len(last.out[i].shape) = Max(last.ndim, Len(last.hs[i].shape))
                  /\ Len(last.hs[i].shape) < last.ndim =>
                         /\ PaddedFrom(last.out[i], last.hs[i])
                         /\ last.out[i].shape[1] = 1
                  /\ Len(last.hs[i].shape) >= last.ndim => last.out[i] = last.hs[i]
    /\ (last.fn = "trt_" /\ last.err = "") =>
           /\ Len(last.out) = Len(last.ops)
           /\ \A i \in 1..Len(last.out) :
                  Len(last.out[i].shape) = BroadcastRank(last.ops, last.tens0)

\* C9 witness: a broadcast that pads one handle and leaves another at rank R
C9_Witness ==
    /\ last.fn = "broadcast_trt_tensors"
    /\ \E i, j \in 1..Len(last.hs) :
           /\ Len(last.hs[i].shape) < last.ndim
           /\ Len(last.hs[i].shape) > 0
           /\ Len(last.hs[j].shape) = last.ndim
           /\ Len(last.out[i].shape) = last.ndim

DTypeClash(ops, tens) ==
    \E i, j \in 1..Len(ops) :
        /\ IsTensor(ops[i])
        /\ IsTensor(ops[j])
        /\ tens[ops[i]].dtype # tens[ops[j]].dtype

NoLiveTensor(ops) == \A i \in 1..Len(ops) : ~IsTensor(ops[i])

\* C10: operands holding two Live Tensors of different element types, or no
\* Live Tensor at all, make add_missing_trt_tensors and trt_ fail before any
\* node is added to the graph and before any handle is attached.
C10_FailsBeforeAnyEffect ==
    (last.fn \in NormFns /\ (DTypeClash(last.ops, last.tens0) \/ NoLiveTensor(last.ops))) =>
        /\ last.err = "AssertionError"
        /\ network = last.net0
        /\ tensors = last.tens0
        /\ last.out = <<>>

\* C10 witness: a failed call on a handle-less tensor and one of another type
C10_Witness ==
    /\ last.fn \in NormFns
    /\ last.err = "AssertionError"
    /\ DTypeClash(last.ops, last.tens0)
    /\ last.ops[1] = 1
    /\ ~HasTrt(last.tens0, 1)

(***************************************************************************)
(* Claims about registration, checked under LoadSpec                       *)
(***************************************************************************)
\* no prefix of the dotted name is an importable module, or the module found
\* does not have the attribute
Unresolvable(method) ==
    \/ \A k \in 0..(Len(Path(method)) - 1) : SubSeq(Path(method), 1, k) \notin Importable
    \/ Path(method) \notin Attributes

\* C11: a registration of a named operation that cannot be imported or located
\* raises nothing, leaves the registry as it was, hands the decorated rule back
\* unchanged, and the load goes on to the registrations after it.
C11_UnresolvableRegistrationSkipped ==
    (load.last.method # "" /\ Unresolvable(load.last.method)) =>
        /\ load.last.err = ""
        /\ registry = load.last.registry0
        /\ load.last.returned = load.last.converter
        /\ load.pc # "aborted"

(***************************************************************************)
(* Claims about the mappings, add_inputs and mark_outputs, checked under   *)
(* NormSpec                                                                *)
(***************************************************************************)
\* the values that have a counterpart
Mapped(fn) ==
    CASE fn = "torch_dtype_to_trt" -> {"bool", "int8", "int32", "float16", "float32", "int64"}
      [] fn = "torch_dtype_from_trt" ->
             {"trt.int8", "trt.bool", "trt.int32", "trt.float16", "trt.float32"}
      [] fn = "torch_device_to_trt" -> {"cuda", "cpu"}
      [] OTHER -> TensorLocations

Unsupported(tens, t) ==
    \/ tens[t].dtype \notin Mapped("torch_dtype_to_trt")
    \/ tens[t].device \notin Mapped("torch_device_to_trt")

\* C12: each of the four mappings raises for every value without a counterpart;
\* add_inputs reaching a handle-less tensor of unsupported element type or
\* device raises TypeError, mark_outputs given such a tensor raises, and no
\* graph input or output ends up with a location that is not a TensorLocation.
C12_UnmappedValueIsFatal ==
    /\ (last.fn \in MapFns /\ last.ops[1] \notin Mapped(last.fn)) => last.err = "TypeError"
    /\ last.fn = "add_inputs" =>
           ((\E i \in 1..Len(last.ops) :
                  ~HasTrt(last.tens0, last.ops[i]) /\ Unsupported(last.tens0, last.ops[i]))
               => last.err = "TypeError")
    /\ last.fn = "mark_outputs" =>
           ((\E i \in 1..Len(last.ops) : Unsupported(last.tens0, last.ops[i]))
               => last.err # "")
    /\ \A i \in 1..Len(network.nodes) : network.nodes[i].location \in TensorLocations

(***************************************************************************)
(* Further claims about the driver and the wrapper, checked under Spec     *)
(***************************************************************************)
\* the keys a save under store.prefix writes
SavedKeys == ReservedKeys(store.prefix)

\* C14: a save under a prefix writes the three reserved keys under that prefix
\* and nothing else; a load under the same prefix of what was saved then
\* succeeds whenever the runtime accepts the bytes, and the loaded wrapper is
\* built from exactly the saved engine bytes, has an execution session, and
\* has the input name list and the output name list of the saved wrapper.
C14_StateDictRoundTrip ==
    /\ (store.saved /\ store.save_err = "") =>
           /\ DOMAIN store.state_dict = DOMAIN store.state_dict0 \cup SavedKeys
           /\ \A k \in DOMAIN store.state_dict0 \ SavedKeys :
                  store.state_dict[k] = store.state_dict0[k]
           /\ store.state_dict[store.prefix \o "engine"] = Serialize(result.engine)
    /\ (store.loaded /\ store.load_prefix = store.prefix) =>
           /\ store.load_err \in {"", "AttributeError"}
           /\ store.load_err = "" =>
                  /\ \E accepted \in BOOLEAN :
                         store.module.engine =
                             Deserialize(store.state_dict[store.prefix \o "engine"], accepted)
                  /\ store.module.engine = result.engine
                  /\ store.module.context
                  /\ store.module.input_names = result.input_names
                  /\ store.module.output_names = result.output_names
                  /\ store.module.input_names.some
                  /\ store.module.output_names.some

\* C14 witness: a wrapper with two outputs saved under a prefix, next to the
\* entry of another module, and loaded back under the same prefix
C14_Witness ==
    /\ store.loaded
    /\ store.load_err = ""
    /\ store.prefix = "trt."
    /\ store.load_prefix = "trt."
    /\ DOMAIN store.state_dict0 # {}
    /\ Len(store.module.output_names.v) = 2

\* the original implementation of the innermost intercepted call raises
MethodRaised ==
    /\ stack # <<>>
    /\ Top.wrapped
    /\ Top.phase = "method"
    /\ exc = ""
    /\ exc' # ""
    /\ stack' = Pop

\* the counts of every intercepted call in progress and of the call returned last
CallCounts ==
    /\ \A i \in 1..Len(stack) :
           stack[i].wrapped =>
               /\ stack[i].methods = 1
               /\ stack[i].phase = "method" => (stack[i].rules = 0 /\ stack[i].outputs = 0)
               /\ stack[i].phase = "rule" =>
                      /\ stack[i].rules = 1
                      /\ stack[i].outputs \in 1..Len(tensors)
                      /\ tensors[stack[i].outputs].from = stack[i].op
    /\ ret.op # "" =>
           /\ ret.methods = 1
           /\ ret.rules <= 1
           /\ ret.free => ret.rules = 1
           /\ ret.converted <=> ret.rules = 1

\* C15: every intercepted call in progress or returned, converted or
\* suppressed, has run the original implementation exactly once; a call that
\* found the lock free has its rule invoked exactly once before it returns, and
\* only after the implementation returned its value; no call has its rule
\* invoked twice; a call whose implementation raises leaves with no rule invoked.
C15_MethodOnceThenRuleOnce ==
    /\ []CallCounts
    /\ [][MethodRaised => (Top.methods = 1 /\ Top.rules = 0)]_vars

\* C15 witness: an operation registered as not real was converted after a call
\* made by its implementation had been converted
C15_Witness ==
    /\ ret.op = "compose"
    /\ ret.converted
    /\ ret.rules = 1
    /\ made = 2
    /\ exc = ""

\* C16 as stated: whatever the outer operation is registered as, an intercepted
\* call made inside an intercepted call in progress is not converted.
C16_OnlyOutermostConverts ==
    \A i, j \in 1..Len(stack) :
        (i < j /\ stack[i].wrapped /\ stack[j].wrapped) =>
            (stack[j].skip /\ stack[j].rules = 0)

\* C16 amended: while an intercepted call of an operation registered as real is
\* in progress (its implementation or its rule is executing), every
\* intercepted call made inside it is suppressed; an intercepted call is
\* converted exactly when it found the lock free, so inside a call of an
\* operation registered as not real, which does not take the lock, a call that
\* finds the lock free is converted.
C16_OnlyOutermostRealConverts ==
    /\ \A i, j \in 1..Len(stack) :
           (i < j /\ stack[i].wrapped /\ stack[j].wrapped
                  /\ CONVERTERS[stack[i].op].is_real) =>
               (stack[j].skip /\ stack[j].rules = 0 /\ stack[j].phase = "method")
    /\ \A j \in 1..Len(stack) : stack[j].wrapped => (stack[j].skip <=> ~stack[j].free)
    /\ \A j \in 1..Len(stack) :
           (stack[j].wrapped /\ ~CONVERTERS[stack[j].op].is_real) => ~stack[j].acquired

\* C16 witness: the rule of a real operation calls an intercepted operation,
\* which is suppressed
C16_Witness ==
    /\ Len(stack) = 2
    /\ stack[1].acquired
    /\ stack[1].phase = "rule"
    /\ stack[2].wrapped
    /\ stack[2].skip
    /\ CONVERTERS[stack[2].op].is_real

\* C17: while the rule of a call executes, the innermost such rule finds in the
\* Operation Record the arguments, named arguments and return value of its own
\* call, also after intercepted calls the rule made have returned.
C17_RecordValidDuringRule ==
    (pc = "trace" /\ exc = "" /\ stack # <<>>) =>
        (Top.phase = "rule" =>
            /\ ctx.method_args = Some(Top.args)
            /\ ctx.method_kwargs = Some(Top.kwargs)
            /\ ctx.method_return = Some(Top.outputs))

\* C18: whenever no intercepted call is in progress on the context the lock is
\* free, also after a call of a real operation was left by an exception; so an
\* intercepted call made by the traced module itself is never suppressed.
C18_LockFreeWhenIdle ==
    /\ (pc = "trace" /\ \A i \in 1..Len(stack) : ~stack[i].wrapped) => ~ctx.lock
    /\ (Len(stack) = 1 /\ stack[1].wrapped) => stack[1].free

\* C13: torch2trt hands back a Compiled Module Wrapper only with a built engine
\* and an execution session; when the builder produces no engine the call
\* raises and returns nothing.
C13_WrapperHoldsBuiltEngine ==
    /\ result.returned => (result.engine # "None" /\ result.context)
    /\ (pc = "done" /\ result.engine = "None") => (~result.returned /\ result.raised # "")

(***************************************************************************)
(* Further claims about add_inputs and the normalizer, checked under       *)
(* NormSpec                                                                *)
(***************************************************************************)
\* the graph inputs the last call added for tensor t
NewInputsOf(t) ==
    {i \in (Len(last.net0.nodes) + 1)..Len(network.nodes) :
        network.nodes[i].kind = "input" /\ network.nodes[i].src = t}

\* the names the call works with: those given, or the default ones
NamesUsed ==
    IF last.names.some THEN last.names.v
    ELSE [i \in 1..Len(last.ops) |-> "input_" \o ToString(i - 1)]

FirstPosition(ops, t) == CHOOSE i \in Positions(ops, t) : \A j \in Positions(ops, t) : i <= j

\* C19: a call of add_inputs that returns has created exactly one graph input
\* for each listed tensor that lacked a handle, named with the name at the
\* tensor's (first) position, of the tensor's shape without its first
\* dimension, and attached its handle to the tensor; a listed tensor that had a
\* handle keeps it and gets no graph input; every listed tensor ends with a
\* handle; nothing else is added to the graph and no other tensor changes.
C19_AddInputsFrame ==
    (last.fn = "add_inputs" /\ last.err = "") =>
        /\ \A t \in Range(last.ops) :
               /\ HasTrt(tensors, t)
               /\ ~HasTrt(last.tens0, t) =>
                      /\ Cardinality(NewInputsOf(t)) = 1
                      /\ \A i \in NewInputsOf(t) :
                             /\ network.nodes[i].name = NamesUsed[FirstPosition(last.ops, t)]
                             /\ network.nodes[i].shape = DropFirst(last.tens0[t].shape, 1)
                             /\ tensors[t].trt =
                                    [net |-> network.id, node |-> i,
                                     shape |-> DropFirst(last.tens0[t].shape, 1)]
               /\ HasTrt(last.tens0, t) =>
                      /\ tensors[t].trt = last.tens0[t].trt
                      /\ NewInputsOf(t) = {}
        /\ Len(network.nodes) - Len(last.net0.nodes) =
               Cardinality({t \in Range(last.ops) : ~HasTrt(last.tens0, t)})
        /\ SubSeq(network.nodes, 1, Len(last.net0.nodes)) = last.net0.nodes
        /\ \A t \in NormIds \ Range(last.ops) : tensors[t] = last.tens0[t]

\* C19 witness: add_inputs given a tensor that is a graph input already and
\* then a handle-less tensor, with names of the caller's
C19_Witness ==
    /\ last.fn = "add_inputs"
    /\ last.err = ""
    /\ last.ops = <<2, 1>>
    /\ HasTrt(last.tens0, 2)
    /\ ~HasTrt(last.tens0, 1)
    /\ last.names.some
    /\ Len(last.tens0[1].shape) >= 2
    /\ \E i \in NewInputsOf(1) : network.nodes[i].name = "t2"

\* s with its maximal leading run of 1s removed, said without the loop: the
\* suffix of s that starts at the first dimension that is not 1
Stripped(shape) ==
    LET others == {i \in 1..Len(shape) : shape[i] # 1}
    IN  IF others = {} THEN <<>>
        ELSE SubSeq(shape, CHOOSE i \in others : \A j \in others : i <= j, Len(shape))

\* tensor t got its handle from the add_missing_trt_tensors call that is the
\* last call, or that the last call (a broadcast) followed
MadeByAddMissing(t) ==
    /\ ConstNodesOf(network, t) # {}
    /\ \/ last.fn = "add_missing_trt_tensors" /\ ~HasTrt(last.tens0, t)
       \/ last.fn = "broadcast_trt_tensors" /\ ncalls = 2

\* C20: the constant add_missing_trt_tensors makes for a handle-less tensor of
\* shape s has the shape s without its maximal leading run of singleton
\* dimensions (interior and trailing ones are kept, an all-ones shape becomes
\* empty), and broadcast_trt_tensors with a target rank R >= len(s) gives that
\* constant the shape s left-padded with singleton dimensions to rank R.
C20_StrippedOnesComeBack ==
    \A t \in NormIds :
        MadeByAddMissing(t) =>
            /\ Cardinality(ConstNodesOf(network, t)) = 1
            /\ \A i \in ConstNodesOf(network, t) :
                   /\ network.nodes[i].shape = Stripped(tensors[t].shape)
                   /\ tensors[t].trt.node = i
                   /\ tensors[t].trt.shape = Stripped(tensors[t].shape)
            /\ (last.fn = "broadcast_trt_tensors" /\ last.ndim >= Len(tensors[t].shape)) =>
                   \A p \in Positions(last.ops, t) :
                       /\ last.hs[p] = tensors[t].trt
                       /\ last.out[p].shape =
                              Ones(last.ndim - Len(tensors[t].shape)) \o tensors[t].shape

\* C20 witness: a tensor of shape (1, 2, 1) was made a constant of shape (2, 1)
\* and broadcast to rank 4
C20_Witness ==
    /\ last.fn = "broadcast_trt_tensors"
    /\ last.ndim = 4
    /\ 1 \in Range(last.ops)
    /\ tensors[1].shape = <<1, 2, 1>>
    /\ tensors[1].trt.shape = <<2, 1>>
    /\ \E p \in Positions(last.ops, 1) : last.out[p].shape = <<1, 1, 2, 1>>

====
